---------------------------- MODULE Spec2Model ----------------------------
(***************************************************************************)
(* Model of the key-hashing functors of                                    *)
(* cpp/include/cudf/detail/utilities/hash_functions.cuh:                   *)
(* MurmurHash3_32<Key> and SparkMurmurHash3_32<Key>, their typed           *)
(* operator() specialisations, the floating-point canonicalisation and     *)
(* the Spark decimal128 byte encoder.                                      *)
(*                                                                         *)
(* A uint32_t is the record [hi, lo] of its two 16-bit halves, so that     *)
(* every intermediate of the modulo-2^32 arithmetic stays inside TLC's     *)
(* integers.  A key is the sequence of the bytes of its storage, least     *)
(* significant byte first (the order reinterpret_cast<std::byte const*>    *)
(* sees on the little-endian device).                                      *)
(***************************************************************************)
EXTENDS Integers, Sequences, FiniteSets, TLC

(***************************************************************************)
(* Bounds of the model.                                                    *)
(***************************************************************************)
\* longest string_view key, in bytes
MaxLen == 9

(***************************************************************************)
(* uint32_t arithmetic.                                                    *)
(***************************************************************************)
Pow2(n) == 2 ^ n

Half == 2 ^ 16

U32(h, l) == [hi |-> h, lo |-> l]

\* a small non-negative int (a length, a byte, a literal) converted to uint32_t
ToU32(n) == U32(n \div Half, n % Half)

RECURSIVE XorNat(_, _)
XorNat(a, b) ==
  IF a = 0 THEN b
  ELSE IF b = 0 THEN a
  ELSE ((a + b) % 2) + 2 * XorNat(a \div 2, b \div 2)

\* x ^ y
Xor32(x, y) == U32(XorNat(x.hi, y.hi), XorNat(x.lo, y.lo))

\* x + y
Add32(x, y) ==
  U32((x.hi + y.hi + ((x.lo + y.lo) \div Half)) % Half, (x.lo + y.lo) % Half)

\* low and high 16 bits of the 32-bit product of two 16-bit numbers
MulLo16(a, b) == (a * (b % 256) + ((a * (b \div 256)) % 256) * 256) % Half

MulHi16(a, b) ==
  ((a * (b % 256) + ((a * (b \div 256)) % 256) * 256) \div Half)
    + ((a * (b \div 256)) \div 256)

\* x * y
Mul32(x, y) ==
  U32((MulHi16(x.lo, y.lo) + MulLo16(x.lo, y.hi) + MulLo16(x.hi, y.lo)) % Half,
      MulLo16(x.lo, y.lo))

\* x >> r, 0 <= r < 32
Shr32(x, r) ==
  IF r >= 16
    THEN U32(0, x.hi \div Pow2(r - 16))
    ELSE U32(x.hi \div Pow2(r),
             (x.lo \div Pow2(r)) + (x.hi % Pow2(r)) * Pow2(16 - r))

\* x << r, 0 <= r < 32
Shl32(x, r) ==
  IF r >= 16
    THEN U32((x.lo % Pow2(32 - r)) * Pow2(r - 16), 0)
    ELSE U32((x.hi % Pow2(16 - r)) * Pow2(r) + (x.lo \div Pow2(16 - r)),
             (x.lo % Pow2(16 - r)) * Pow2(r))

\* x | y for operands with no common set bit
Or32(x, y) == U32(x.hi + y.hi, x.lo + y.lo)

(***************************************************************************)
(* MurmurHash3_32<Key>                                                     *)
(***************************************************************************)
c1 == U32(52382, 11601)      \* 0xcc9e2d51
c2 == U32(7047, 13715)       \* 0x1b873593
c3 == U32(58964, 27492)      \* 0xe6546b64
rot_c1 == 15
rot_c2 == 13
BLOCK_SIZE == 4

\* __funnelshift_l(x, x, r): (x << r) | (x >> (32 - r))
rotl32(x, r) ==
  IF r % 32 = 0 THEN x ELSE Or32(Shl32(x, r % 32), Shr32(x, 32 - (r % 32)))

fmix32(h) ==
  LET h_1 == Xor32(h, Shr32(h, 16))
      h_2 == Mul32(h_1, U32(34283, 51819))     \* 0x85ebca6b
      h_3 == Xor32(h_2, Shr32(h_2, 13))
      h_4 == Mul32(h_3, U32(49842, 44597))     \* 0xc2b2ae35
  IN  Xor32(h_4, Shr32(h_4, 16))

\* data is 1-indexed here: the byte at C++ offset o is data[o + 1]
getblock32(data, offset) ==
  U32(data[offset + 3] + data[offset + 4] * 256,
      data[offset + 1] + data[offset + 2] * 256)

\* the k1 *= c1; k1 = rotl32(k1, rot_c1); k1 *= c2 sequence
MixK1(k1) == Mul32(rotl32(Mul32(k1, c1), rot_c1), c2)

\* h1 ^= k1; h1 = rotl32(h1, rot_c2); h1 = h1 * 5 + c3
MixH1(h1, k1) == Add32(Mul32(rotl32(Xor32(h1, k1), rot_c2), ToU32(5)), c3)

\* the for loop over the four-byte chunks; st is the loop state [i, h1]
RECURSIVE BlockLoop(_, _, _)
BlockLoop(data, nblocks, st) ==
  IF st.i < nblocks
    THEN BlockLoop(data, nblocks,
                   [i  |-> st.i + 1,
                    h1 |-> MixH1(st.h1, MixK1(getblock32(data, st.i * BLOCK_SIZE)))])
    ELSE st.h1

\* seeded fault: the switch without fall-through, case 3 and case 2 each
\* reading only their own byte before the mixing of case 1
MurmurTail_NoFallThrough(data, len, tail_offset, h1) ==
  LET k_1 == IF len % 4 = 3 THEN Shl32(ToU32(data[tail_offset + 3]), 16)
             ELSE IF len % 4 = 2 THEN Shl32(ToU32(data[tail_offset + 2]), 8)
             ELSE ToU32(data[tail_offset + 1])
  IN  IF len % 4 = 0 THEN h1 ELSE Xor32(h1, MixK1(k_1))

\* the fall-through switch (len % 4) of MurmurHash3_32::compute_bytes
MurmurTail(data, len, tail_offset, h1) ==
  LET k_3 == IF len % 4 = 3
               THEN Xor32(ToU32(0), Shl32(ToU32(data[tail_offset + 3]), 16))
               ELSE ToU32(0)
      k_2 == IF len % 4 >= 2
               THEN Xor32(k_3, Shl32(ToU32(data[tail_offset + 2]), 8))
               ELSE k_3
      k_1 == Xor32(k_2, ToU32(data[tail_offset + 1]))
  IN  IF len % 4 = 0 THEN h1 ELSE Xor32(h1, MixK1(k_1))

MurmurHash3_32_compute_bytes(m_seed_, data, len) ==
  LET nblocks     == len \div BLOCK_SIZE
      tail_offset == nblocks * BLOCK_SIZE
      h_blocks    == BlockLoop(data, nblocks, [i |-> 0, h1 |-> m_seed_])
      h_tail      == MurmurTail(data, len, tail_offset, h_blocks)
  IN  fmix32(Xor32(h_tail, ToU32(len)))

(***************************************************************************)
(* SparkMurmurHash3_32<Key>                                                *)
(***************************************************************************)
\* seeded fault: the one-step cast, which zero-extends the byte
SignExtendByte_ZeroExtended(b) == U32(0, b)

\* static_cast<uint32_t>(std::to_integer<int8_t>(b))
SignExtendByte(b) == IF b >= 128 THEN U32(65535, 65280 + b) ELSE U32(0, b)

\* seeded fault: the tail batched into one zero-extended word, as in
\* MurmurHash3_32::compute_bytes
SparkTailLoop_Batched(data, len, st) == MurmurTail(data, len, st.i, st.h1)

\* the for loop over the remaining bytes; st is the loop state [i, h1]
RECURSIVE SparkTailLoop(_, _, _)
SparkTailLoop(data, len, st) ==
  IF st.i < len
    THEN SparkTailLoop(data, len,
                       [i  |-> st.i + 1,
                        h1 |-> MixH1(st.h1, MixK1(SignExtendByte(data[st.i + 1])))])
    ELSE st.h1

\* seeded fault: the finalisation without h1 ^= len
SparkMurmurHash3_32_compute_bytes_NoLength(m_seed_, data, len) ==
  LET nblocks  == len \div BLOCK_SIZE
      h_blocks == BlockLoop(data, nblocks, [i |-> 0, h1 |-> m_seed_])
      h_tail   == SparkTailLoop(data, len, [i |-> nblocks * 4, h1 |-> h_blocks])
  IN  fmix32(h_tail)

SparkMurmurHash3_32_compute_bytes(m_seed_, data, len) ==
  LET nblocks  == len \div BLOCK_SIZE
      h_blocks == BlockLoop(data, nblocks, [i |-> 0, h1 |-> m_seed_])
      h_tail   == SparkTailLoop(data, len, [i |-> nblocks * 4, h1 |-> h_blocks])
  IN  fmix32(Xor32(h_tail, ToU32(len)))

(***************************************************************************)
(* Floating point keys.  A float is its 4 and a double its 8 storage bytes, *)
(* least significant first; the sign bit is bit 7 of the last byte.        *)
(***************************************************************************)
\* seeded fault: only patterns with the quiet bit set are taken for NaN
std_isnan_QuietOnly(key) ==
  LET n == Len(key)
  IN  /\ key[n] % 128 = 127
      /\ IF n = 4 THEN key[3] >= 192 ELSE key[7] >= 248

\* std::isnan(key): the magnitude is above that of infinity
std_isnan(key) ==
  LET n == Len(key)
  IN  /\ key[n] % 128 = 127
      /\ IF n = 4
           THEN /\ key[3] >= 128
                /\ (key[3] > 128 \/ key[2] > 0 \/ key[1] > 0)
           ELSE /\ key[7] >= 240
                /\ (key[7] > 240 \/ \E i \in 1..6 : key[i] > 0)

\* key == T{0.0}: true of +0.0 and of -0.0
EqualsZero(key) ==
  /\ key[Len(key)] % 128 = 0
  /\ \A i \in 1..(Len(key) - 1) : key[i] = 0

\* T{0.0}
Zero(n) == [i \in 1..n |-> 0]

\* std::numeric_limits<T>::quiet_NaN(): 0x7fc00000, 0x7ff8000000000000
quiet_NaN(n) ==
  [i \in 1..n |-> IF i = n THEN 127
                  ELSE IF i = n - 1 THEN (IF n = 4 THEN 192 ELSE 248)
                  ELSE 0]

normalize_nans_and_zeros(key) ==
  IF std_isnan(key) THEN quiet_NaN(Len(key))
  ELSE IF EqualsZero(key) THEN Zero(Len(key))
  ELSE key

\* MurmurHash3_32::compute<T>: the sizeof(T) bytes of the key
MurmurHash3_32_compute(m_seed_, key) ==
  MurmurHash3_32_compute_bytes(m_seed_, key, Len(key))

\* seeded fault: the wrapper without its zero branch
MurmurHash3_32_floating_point_bytes_NoZero(key) ==
  IF std_isnan(key) THEN quiet_NaN(Len(key)) ELSE key

\* the bytes MurmurHash3_32::compute_floating_point hands to compute
MurmurHash3_32_floating_point_bytes(key) ==
  IF EqualsZero(key) THEN Zero(Len(key))
  ELSE IF std_isnan(key) THEN quiet_NaN(Len(key))
  ELSE key

MurmurHash3_32_compute_floating_point(m_seed_, key) ==
  MurmurHash3_32_compute(m_seed_, MurmurHash3_32_floating_point_bytes(key))

\* SparkMurmurHash3_32::compute<T>
SparkMurmurHash3_32_compute(m_seed_, key) ==
  SparkMurmurHash3_32_compute_bytes(m_seed_, key, Len(key))

\* the bytes SparkMurmurHash3_32::compute_floating_point hands to compute
SparkMurmurHash3_32_floating_point_bytes(key) ==
  IF std_isnan(key) THEN quiet_NaN(Len(key)) ELSE key

SparkMurmurHash3_32_compute_floating_point(m_seed_, key) ==
  SparkMurmurHash3_32_compute(m_seed_, SparkMurmurHash3_32_floating_point_bytes(key))

(***************************************************************************)
(* SparkMurmurHash3_32<numeric::decimal128>: the big-endian span of        *)
(* java.math.BigInteger.toByteArray().  val is the 16 bytes of the         *)
(* __int128_t, least significant first.                                    *)
(***************************************************************************)
key_size == 16

\* val < 0
is_negative(val) == val[key_size] >= 128

\* is_negative ? std::byte{0xff} : std::byte{0x00}
zero_value(val) == IF is_negative(val) THEN 255 ELSE 0

\* thrust::find_if_not over the reversed range, then distance(data, it.base()):
\* the number of bytes up to and including the most significant byte that
\* differs from zero_value, 0 when there is none
RECURSIVE first_nonzero_byte(_, _)
first_nonzero_byte(val, n) ==
  IF n = 0 THEN 0
  ELSE IF val[n] # zero_value(val) THEN n
  ELSE first_nonzero_byte(val, n - 1)

Max(a, b) == IF a >= b THEN a ELSE b

\* data[offset], the byte of val at that offset; a read outside the key_size
\* bytes of val yields no byte of val and is written -1
data_at(val, offset) ==
  IF offset \in 0..(key_size - 1) THEN val[offset + 1] ELSE -1

\* seeded fault: the length without std::max(1, ...)
decimal128_trimmed_length_NoFloor(val) == first_nonzero_byte(val, key_size)

\* the length before the sign-preserving byte is considered
decimal128_trimmed_length(val) == Max(1, first_nonzero_byte(val, key_size))

\* seeded fault: a sign byte is added whenever there is room for one
decimal128_length_AlwaysSignByte(val) ==
  LET length == Max(1, first_nonzero_byte(val, key_size))
  IN  IF length < key_size THEN length + 1 ELSE length

\* seeded fault: the sign-preserving byte is never added back
decimal128_length_NoSignByte(val) == Max(1, first_nonzero_byte(val, key_size))

\* the retained length, after the sign-preserving byte is added back
decimal128_length(val) ==
  LET length == decimal128_trimmed_length(val)
  IN  IF (length < key_size) /\ (is_negative(val) # (data_at(val, length - 1) >= 128))
        THEN length + 1
        ELSE length

\* seeded fault: the bytes copied without reversal
reverse_copy_Forward(val, length) == [i \in 1..length |-> val[i]]

\* thrust::reverse_copy(data, data + length, big_endian_data)
reverse_copy(val, length) == [i \in 1..length |-> data_at(val, length - i)]

(***************************************************************************)
(* Nested keys.  cudf_assert is the device assertion of                    *)
(* cudf/detail/utilities/assert.cuh.                                       *)
(***************************************************************************)
cudf_assert(e) == IF e THEN "passed" ELSE "fault"

\* outcome of an operator() whose body is cudf_assert(false && "..."); return 0;
MurmurHash3_32_list_view ==
  IF cudf_assert(FALSE) = "fault"
    THEN [outcome |-> "fault", span |-> << >>, value |-> ToU32(0)]
    ELSE [outcome |-> "returned", span |-> << >>, value |-> ToU32(0)]

MurmurHash3_32_struct_view ==
  IF cudf_assert(FALSE) = "fault"
    THEN [outcome |-> "fault", span |-> << >>, value |-> ToU32(0)]
    ELSE [outcome |-> "returned", span |-> << >>, value |-> ToU32(0)]

SparkMurmurHash3_32_list_view ==
  IF cudf_assert(FALSE) = "fault"
    THEN [outcome |-> "fault", span |-> << >>, value |-> ToU32(0)]
    ELSE [outcome |-> "returned", span |-> << >>, value |-> ToU32(0)]

\* seeded fault: the assertion left out, the return statement reached
SparkMurmurHash3_32_struct_view_NoAssert ==
  [outcome |-> "returned", span |-> << >>, value |-> ToU32(0)]

SparkMurmurHash3_32_struct_view ==
  IF cudf_assert(FALSE) = "fault"
    THEN [outcome |-> "fault", span |-> << >>, value |-> ToU32(0)]
    ELSE [outcome |-> "returned", span |-> << >>, value |-> ToU32(0)]

(***************************************************************************)
(* The typed operator() specialisations.  Each yields the span handed to   *)
(* compute_bytes and the value returned.                                   *)
(***************************************************************************)
Returned(bytes, v) == [outcome |-> "returned", span |-> bytes, value |-> v]

\* seeded fault: the string hashed from the default seed, not the functor's
MurmurHash3_32_string_view_SeedDropped(m_seed_, key) ==
  Returned(key, MurmurHash3_32_compute_bytes(ToU32(0), key, Len(key)))

MurmurHash3_32_string_view(m_seed_, key) ==
  Returned(key, MurmurHash3_32_compute_bytes(m_seed_, key, Len(key)))

MurmurHash3_32_float(m_seed_, key) ==
  Returned(MurmurHash3_32_floating_point_bytes(key),
           MurmurHash3_32_compute_floating_point(m_seed_, key))

MurmurHash3_32_double(m_seed_, key) ==
  Returned(MurmurHash3_32_floating_point_bytes(key),
           MurmurHash3_32_compute_floating_point(m_seed_, key))

MurmurHash3_32_decimal128(m_seed_, key) ==
  Returned(key, MurmurHash3_32_compute(m_seed_, key))

SparkMurmurHash3_32_string_view(m_seed_, key) ==
  Returned(key, SparkMurmurHash3_32_compute_bytes(m_seed_, key, Len(key)))

SparkMurmurHash3_32_float(m_seed_, key) ==
  Returned(SparkMurmurHash3_32_floating_point_bytes(key),
           SparkMurmurHash3_32_compute_floating_point(m_seed_, key))

SparkMurmurHash3_32_double(m_seed_, key) ==
  Returned(SparkMurmurHash3_32_floating_point_bytes(key),
           SparkMurmurHash3_32_compute_floating_point(m_seed_, key))

SparkMurmurHash3_32_decimal128(m_seed_, key) ==
  LET length          == decimal128_length(key)
      big_endian_data == reverse_copy(key, length)
  IN  Returned(big_endian_data,
               SparkMurmurHash3_32_compute_bytes(m_seed_, big_endian_data, length))

(***************************************************************************)
(* Integral, bool and narrow decimal keys.  A key is its storage bytes,    *)
(* least significant first, together with the name of its type.            *)
(***************************************************************************)
IntTypes == {"int8_t", "uint8_t", "int16_t", "uint16_t",
             "int32_t", "uint32_t", "int64_t", "uint64_t"}

\* sizeof(Key)
sizeof(t) ==
  CASE t \in {"bool", "int8_t", "uint8_t"} -> 1
    [] t \in {"int16_t", "uint16_t"} -> 2
    [] t \in {"int32_t", "uint32_t", "float", "decimal32"} -> 4
    [] t \in {"int64_t", "uint64_t", "double", "decimal64"} -> 8
    [] t = "decimal128" -> key_size

\* whether Key is a signed integer type; decimal32 and decimal64 hold their
\* value in an int32_t and an int64_t
is_signed(t) ==
  t \in {"int8_t", "int16_t", "int32_t", "int64_t", "decimal32", "decimal64"}

\* seeded fault: the conversion goes through the unsigned type of the key's
\* own width, so a negative value is not sign-extended
static_cast_unsigned_ZeroExtended(n, t, key) ==
  [i \in 1..n |-> IF i <= Len(key) THEN key[i] ELSE 0]

\* static_cast to the unsigned integer type of n bytes, or the implicit
\* conversion of an argument to a T const& parameter of that type: the value
\* modulo 2^(8n), i.e. the low bytes of the sign-extended (signed Key) or
\* zero-extended (unsigned Key, bool) key
static_cast_unsigned(n, t, key) ==
  [i \in 1..n |-> IF i <= Len(key) THEN key[i]
                  ELSE IF is_signed(t) /\ key[Len(key)] >= 128 THEN 255
                  ELSE 0]

\* the result_type holding the four bytes b, least significant first
result_type_of(b) == U32(b[3] + 256 * b[4], b[1] + 256 * b[2])

\* MurmurHash3_32<Key>::operator() of the primary template
MurmurHash3_32_generic(m_seed_, key) ==
  Returned(key, MurmurHash3_32_compute(m_seed_, key))

\* MurmurHash3_32<bool>: compute(static_cast<uint8_t>(key))
MurmurHash3_32_bool(m_seed_, key) ==
  LET k == static_cast_unsigned(1, "bool", key)
  IN  Returned(k, MurmurHash3_32_compute(m_seed_, k))

\* MurmurHash3_32<numeric::decimal32>: compute(key.value())
MurmurHash3_32_decimal32(m_seed_, key) ==
  Returned(key, MurmurHash3_32_compute(m_seed_, key))

\* MurmurHash3_32<numeric::decimal64>: compute(key.value())
MurmurHash3_32_decimal64(m_seed_, key) ==
  Returned(key, MurmurHash3_32_compute(m_seed_, key))

\* SparkMurmurHash3_32<Key>::operator() of the primary template
SparkMurmurHash3_32_generic(m_seed_, key) ==
  Returned(key, SparkMurmurHash3_32_compute(m_seed_, key))

\* seeded fault: the narrow key hashed at its own width, compute(key)
SparkMurmurHash3_32_promoted_NativeWidth(m_seed_, t, key) ==
  Returned(key, SparkMurmurHash3_32_compute(m_seed_, key))

\* SparkMurmurHash3_32<bool>, <int8_t>, <uint8_t>, <int16_t>, <uint16_t>:
\* this->compute<uint32_t>(key)
SparkMurmurHash3_32_promoted(m_seed_, t, key) ==
  LET k == static_cast_unsigned(4, t, key)
  IN  Returned(k, SparkMurmurHash3_32_compute(m_seed_, k))

\* seeded fault: the 32-bit value hashed as it is stored, compute(key.value())
SparkMurmurHash3_32_decimal32_NotWidened(m_seed_, key) ==
  Returned(key, SparkMurmurHash3_32_compute(m_seed_, key))

\* SparkMurmurHash3_32<numeric::decimal32>: this->compute<uint64_t>(key.value())
SparkMurmurHash3_32_decimal32(m_seed_, key) ==
  LET k == static_cast_unsigned(8, "decimal32", key)
  IN  Returned(k, SparkMurmurHash3_32_compute(m_seed_, k))

\* SparkMurmurHash3_32<numeric::decimal64>: this->compute<uint64_t>(key.value())
SparkMurmurHash3_32_decimal64(m_seed_, key) ==
  LET k == static_cast_unsigned(8, "decimal64", key)
  IN  Returned(k, SparkMurmurHash3_32_compute(m_seed_, k))

(***************************************************************************)
(* IdentityHash.  No byte span is handed to compute_bytes.                 *)
(***************************************************************************)
\* the overload for arithmetic Key: return static_cast<result_type>(key)
IdentityHash_arithmetic(t, key) ==
  Returned(<< >>, result_type_of(static_cast_unsigned(4, t, key)))

\* seeded fault: the assertion left out, the return statement reached
IdentityHash_non_arithmetic_NoAssert ==
  [outcome |-> "returned", span |-> << >>, value |-> ToU32(0)]

\* the overload for every other Key: cudf_assert(false && "..."); return 0;
IdentityHash_non_arithmetic ==
  IF cudf_assert(FALSE) = "fault"
    THEN [outcome |-> "fault", span |-> << >>, value |-> ToU32(0)]
    ELSE [outcome |-> "returned", span |-> << >>, value |-> ToU32(0)]

(***************************************************************************)
(* uint32ToLowercaseHexString.  A uint64_t is its 16 hexadecimal digits,   *)
(* least significant first.                                                *)
(***************************************************************************)
\* the 16 digits d[1], ..., d[16], each worked out once
Digits16(d) ==
  <<d[1], d[2], d[3], d[4], d[5], d[6], d[7], d[8],
    d[9], d[10], d[11], d[12], d[13], d[14], d[15], d[16]>>

\* the uint64_t whose eight bytes, least significant first, are b
U64LE(b) ==
  Digits16([i \in 1..16 |-> IF i % 2 = 1 THEN b[(i + 1) \div 2] % 16 ELSE b[i \div 2] \div 16])

\* uint64_t x = num
U64OfU32(w) ==
  U64LE(<<w.lo % 256, w.lo \div 256, w.hi % 256, w.hi \div 256, 0, 0, 0, 0>>)

\* a & b on one hexadecimal digit
And4(a, b) ==
  (a % 2) * (b % 2)
    + 2 * (((a \div 2) % 2) * ((b \div 2) % 2))
    + 4 * (((a \div 4) % 2) * ((b \div 4) % 2))
    + 8 * ((a \div 8) * (b \div 8))

\* x & y
And64(x, y) ==
  Digits16([i \in 1..16 |-> And4(x[i], y[i])])

\* x | y
Or64(x, y) ==
  Digits16([i \in 1..16 |-> x[i] + y[i] - And4(x[i], y[i])])

\* x << n, for n a multiple of 4
Shl64(x, n) ==
  Digits16([i \in 1..16 |-> IF i - (n \div 4) >= 1 THEN x[i - (n \div 4)] ELSE 0])

\* x >> n, for n a multiple of 4
Shr64(x, n) ==
  Digits16([i \in 1..16 |-> IF i + (n \div 4) <= 16 THEN x[i + (n \div 4)] ELSE 0])

\* the carry into digit i of x + y
RECURSIVE AddCarry64(_, _, _)
AddCarry64(x, y, i) ==
  IF i = 1 THEN 0 ELSE (x[i - 1] + y[i - 1] + AddCarry64(x, y, i - 1)) \div 16

\* x + y
Add64(x, y) ==
  Digits16([i \in 1..16 |-> (x[i] + y[i] + AddCarry64(x, y, i)) % 16])

\* the carry into digit i of x * c
RECURSIVE MulCarry64(_, _, _)
MulCarry64(x, c, i) ==
  IF i = 1 THEN 0 ELSE (x[i - 1] * c + MulCarry64(x, c, i - 1)) \div 16

\* x * c, for a small constant c
Mul64(x, c) ==
  Digits16([i \in 1..16 |-> (x[i] * c + MulCarry64(x, c, i)) % 16])

\* 0xABCD1234 => 0x0000ABCD00001234 => 0x0B0A0D0C02010403
pack_digits(num) ==
  LET x_0 == U64OfU32(num)
      x_1 == Or64(Shl64(And64(x_0, U64LE(<<0, 0, 255, 255, 0, 0, 0, 0>>)), 16),
                  And64(x_0, U64LE(<<255, 255, 0, 0, 0, 0, 0, 0>>)))
  IN  Or64(Or64(Or64(Shl64(And64(x_1, U64LE(<<15, 0, 0, 0, 15, 0, 0, 0>>)), 8),
                     Shr64(And64(x_1, U64LE(<<240, 0, 0, 0, 240, 0, 0, 0>>)), 4)),
                Shl64(And64(x_1, U64LE(<<0, 15, 0, 0, 0, 15, 0, 0>>)), 16)),
           Shl64(And64(x_1, U64LE(<<0, 240, 0, 0, 0, 240, 0, 0>>)), 4))

\* seeded fault: the offset of the upper-case letters, 0x07
ascii_offsets_Uppercase(x) ==
  Mul64(And64(Shr64(Add64(x, U64LE(<<6, 6, 6, 6, 6, 6, 6, 6>>)), 4),
              U64LE(<<1, 1, 1, 1, 1, 1, 1, 1>>)),
        7)

\* (((x + 0x0606060606060606) >> 4) & 0x0101010101010101) * 0x27
ascii_offsets(x) ==
  Mul64(And64(Shr64(Add64(x, U64LE(<<6, 6, 6, 6, 6, 6, 6, 6>>)), 4),
              U64LE(<<1, 1, 1, 1, 1, 1, 1, 1>>)),
        39)

\* std::memcpy(destination, &x, n): the first n bytes of destination become
\* the n low bytes of x, least significant first; the rest stay
memcpy(destination, x, n) ==
  [i \in 1..Len(destination) |->
     IF i <= n THEN x[2 * i - 1] + 16 * x[2 * i] ELSE destination[i]]

\* the buffer at destination after uint32ToLowercaseHexString(num, destination)
uint32ToLowercaseHexString(num, destination) ==
  LET x_2     == pack_digits(num)
      offsets == ascii_offsets(x_2)
      x_3     == Or64(x_2, U64LE(<<48, 48, 48, 48, 48, 48, 48, 48>>))
      x_4     == Add64(x_3, offsets)
  IN  memcpy(destination, x_4, 8)

(***************************************************************************)
(* State: one functor, constructed with a seed, and its most recent call.  *)
(***************************************************************************)
VARIABLES
  functor,    \* which template the functor instantiates
  m_seed,     \* the seed bound at construction
  keyType,    \* the Key of the most recent call, "none" before the first
  key,        \* the storage bytes of that key
  span,       \* the bytes that call handed to compute_bytes
  outcome,    \* "none", "returned" or "fault"
  ret,        \* the value handed back to the caller when outcome = "returned"
  frame,      \* per thread, the locals of its compute_bytes call in progress
  hex         \* the call of uint32ToLowercaseHexString at hand: its stage, its
              \* argument num and the buffer at destination

vars == <<functor, m_seed, keyType, key, span, outcome, ret, frame, hex>>

Functors == {"MurmurHash3_32", "SparkMurmurHash3_32", "IdentityHash"}

\* seeds a caller constructs a functor with: 0, 1, 42, 0x9747b28c, 0xffffffff
Seeds == {U32(0, 0), U32(0, 1), U32(0, 42), U32(38727, 45708), U32(65535, 65535)}

\* string_view keys: len bytes, the first b0 and each next one step further
StrFirst == {0, 33, 97, 127, 128, 255}
StrStep  == {0, 1, 34, 128, 255}
StringKey(len, b0, step) == [i \in 1..len |-> (b0 + (i - 1) * step) % 256]

\* float and double keys, picked byte by byte from the most significant down
FloatTop  == {0, 63, 127, 128, 255}
FloatNext == {0, 127, 128, 192, 255}
DoubleNext == {0, 239, 240, 248, 255}
FloatMid  == {0, 255}
FloatLow  == {0, 1}
FloatKey(b3, b2, b1, b0) == <<b0, b1, b2, b3>>
DoubleKey(b7, b6, mid, b0) == <<b0, mid, mid, mid, mid, mid, b6, b7>>

\* decimal128 keys: n - 1 low bytes fill, then the byte top, then sign bytes
DecTop  == {0, 1, 127, 128, 255}
DecFill == {0, 90, 255}
DecSign == {0, 255}
Decimal128Key(n, top, fill, sign) ==
  [i \in 1..key_size |-> IF i < n THEN fill ELSE IF i = n THEN top ELSE sign]

\* integral keys of n bytes: the lowest byte low, the highest top, the one
\* below it next, and fill in between
IntLow  == {0, 1, 255}
IntFill == {0, 255}
IntNext == {0, 128}
IntTop  == {0, 1, 63, 128, 255}
IntKey(n, low, fill, next, top) ==
  [i \in 1..n |-> IF i = n THEN top
                  ELSE IF i = 1 THEN low
                  ELSE IF i = n - 1 THEN next
                  ELSE fill]

\* bool keys: false and true
BoolKeys == {<<0>>, <<1>>}

\* the narrow types SparkMurmurHash3_32 specialises
PromotedTypes == {"int8_t", "uint8_t", "int16_t", "uint16_t"}

\* key types that are not arithmetic
NonArithmeticTypes ==
  {"string_view", "decimal32", "decimal64", "decimal128", "list_view", "struct_view"}

\* the threads that call the one functor
Threads == {"t1", "t2"}

\* a thread that is not inside compute_bytes
IdleFrame ==
  [pc |-> "idle", data |-> << >>, len |-> 0, nblocks |-> 0, i |-> 0,
   h1 |-> ToU32(0), result |-> ToU32(0),
   steps |-> 0, block_iterations |-> 0, tail_bytes |-> 0, reads |-> << >>]

\* no call of uint32ToLowercaseHexString at hand
NoHexCall == [pc |-> "idle", num |-> ToU32(0), destination |-> << >>]

Init ==
  /\ functor \in Functors
  /\ m_seed \in Seeds
  /\ keyType = "none"
  /\ key = << >>
  /\ span = << >>
  /\ outcome = "none"
  /\ ret = ToU32(0)
  /\ frame = [t \in Threads |-> IdleFrame]
  /\ hex = NoHexCall

\* one call of operator()(Key const&) on a key of type t with result r, made
\* for the element at hand
Call(t, k, r) ==
  /\ outcome = "none"
  /\ keyType' = t
  /\ key' = k
  /\ span' = r.span
  /\ outcome' = r.outcome
  /\ ret' = r.value
  /\ UNCHANGED <<functor, m_seed, frame, hex>>

Murmur_string_view ==
  /\ functor = "MurmurHash3_32"
  /\ \E len \in 0..MaxLen, b0 \in StrFirst, step \in StrStep :
       LET k == StringKey(len, b0, step)
       IN  Call("string_view", k, MurmurHash3_32_string_view(m_seed, k))

Murmur_float ==
  /\ functor = "MurmurHash3_32"
  /\ \E b3 \in FloatTop, b2 \in FloatNext, b1 \in FloatMid, b0 \in FloatLow :
       LET k == FloatKey(b3, b2, b1, b0)
       IN  Call("float", k, MurmurHash3_32_float(m_seed, k))

Murmur_double ==
  /\ functor = "MurmurHash3_32"
  /\ \E b7 \in FloatTop, b6 \in DoubleNext, mid \in FloatMid, b0 \in FloatLow :
       LET k == DoubleKey(b7, b6, mid, b0)
       IN  Call("double", k, MurmurHash3_32_double(m_seed, k))

Murmur_decimal128 ==
  /\ functor = "MurmurHash3_32"
  /\ \E n \in 1..key_size, top \in DecTop, fill \in DecFill, sign \in DecSign :
       LET k == Decimal128Key(n, top, fill, sign)
       IN  Call("decimal128", k, MurmurHash3_32_decimal128(m_seed, k))

Murmur_list_view ==
  /\ functor = "MurmurHash3_32"
  /\ Call("list_view", << >>, MurmurHash3_32_list_view)

Murmur_struct_view ==
  /\ functor = "MurmurHash3_32"
  /\ Call("struct_view", << >>, MurmurHash3_32_struct_view)

Spark_string_view ==
  /\ functor = "SparkMurmurHash3_32"
  /\ \E len \in 0..MaxLen, b0 \in StrFirst, step \in StrStep :
       LET k == StringKey(len, b0, step)
       IN  Call("string_view", k, SparkMurmurHash3_32_string_view(m_seed, k))

Spark_float ==
  /\ functor = "SparkMurmurHash3_32"
  /\ \E b3 \in FloatTop, b2 \in FloatNext, b1 \in FloatMid, b0 \in FloatLow :
       LET k == FloatKey(b3, b2, b1, b0)
       IN  Call("float", k, SparkMurmurHash3_32_float(m_seed, k))

Spark_double ==
  /\ functor = "SparkMurmurHash3_32"
  /\ \E b7 \in FloatTop, b6 \in DoubleNext, mid \in FloatMid, b0 \in FloatLow :
       LET k == DoubleKey(b7, b6, mid, b0)
       IN  Call("double", k, SparkMurmurHash3_32_double(m_seed, k))

Spark_decimal128 ==
  /\ functor = "SparkMurmurHash3_32"
  /\ \E n \in 1..key_size, top \in DecTop, fill \in DecFill, sign \in DecSign :
       LET k == Decimal128Key(n, top, fill, sign)
       IN  Call("decimal128", k, SparkMurmurHash3_32_decimal128(m_seed, k))

Spark_list_view ==
  /\ functor = "SparkMurmurHash3_32"
  /\ Call("list_view", << >>, SparkMurmurHash3_32_list_view)

Spark_struct_view ==
  /\ functor = "SparkMurmurHash3_32"
  /\ Call("struct_view", << >>, SparkMurmurHash3_32_struct_view)

Murmur_generic ==
  /\ functor = "MurmurHash3_32"
  /\ \E t \in IntTypes, low \in IntLow, fill \in IntFill, next \in IntNext, top \in IntTop :
       LET k == IntKey(sizeof(t), low, fill, next, top)
       IN  Call(t, k, MurmurHash3_32_generic(m_seed, k))

Murmur_bool ==
  /\ functor = "MurmurHash3_32"
  /\ \E k \in BoolKeys : Call("bool", k, MurmurHash3_32_bool(m_seed, k))

Murmur_decimal32 ==
  /\ functor = "MurmurHash3_32"
  /\ \E low \in IntLow, fill \in IntFill, next \in IntNext, top \in IntTop :
       LET k == IntKey(sizeof("decimal32"), low, fill, next, top)
       IN  Call("decimal32", k, MurmurHash3_32_decimal32(m_seed, k))

Murmur_decimal64 ==
  /\ functor = "MurmurHash3_32"
  /\ \E low \in IntLow, fill \in IntFill, next \in IntNext, top \in IntTop :
       LET k == IntKey(sizeof("decimal64"), low, fill, next, top)
       IN  Call("decimal64", k, MurmurHash3_32_decimal64(m_seed, k))

Spark_generic ==
  /\ functor = "SparkMurmurHash3_32"
  /\ \E t \in IntTypes \ PromotedTypes :
       \E low \in IntLow, fill \in IntFill, next \in IntNext, top \in IntTop :
         LET k == IntKey(sizeof(t), low, fill, next, top)
         IN  Call(t, k, SparkMurmurHash3_32_generic(m_seed, k))

Spark_promoted ==
  /\ functor = "SparkMurmurHash3_32"
  /\ \/ \E k \in BoolKeys :
          Call("bool", k, SparkMurmurHash3_32_promoted(m_seed, "bool", k))
     \/ \E t \in PromotedTypes, low \in IntLow, top \in IntTop :
          LET k == IntKey(sizeof(t), low, 0, 0, top)
          IN  Call(t, k, SparkMurmurHash3_32_promoted(m_seed, t, k))

Spark_decimal32 ==
  /\ functor = "SparkMurmurHash3_32"
  /\ \E low \in IntLow, fill \in IntFill, next \in IntNext, top \in IntTop :
       LET k == IntKey(sizeof("decimal32"), low, fill, next, top)
       IN  Call("decimal32", k, SparkMurmurHash3_32_decimal32(m_seed, k))

Spark_decimal64 ==
  /\ functor = "SparkMurmurHash3_32"
  /\ \E low \in IntLow, fill \in IntFill, next \in IntNext, top \in IntTop :
       LET k == IntKey(sizeof("decimal64"), low, fill, next, top)
       IN  Call("decimal64", k, SparkMurmurHash3_32_decimal64(m_seed, k))

Identity_arithmetic ==
  /\ functor = "IdentityHash"
  /\ \/ \E k \in BoolKeys : Call("bool", k, IdentityHash_arithmetic("bool", k))
     \/ \E t \in IntTypes, low \in IntLow, fill \in IntFill, next \in IntNext, top \in IntTop :
          LET k == IntKey(sizeof(t), low, fill, next, top)
          IN  Call(t, k, IdentityHash_arithmetic(t, k))

Identity_non_arithmetic ==
  /\ functor = "IdentityHash"
  /\ \E t \in NonArithmeticTypes : Call(t, << >>, IdentityHash_non_arithmetic)

\* the caller takes the returned value and moves on to its next element; a
\* fault is fatal and nothing follows it
NextElement ==
  /\ outcome = "returned"
  /\ keyType' = "none"
  /\ key' = << >>
  /\ span' = << >>
  /\ outcome' = "none"
  /\ ret' = ToU32(0)
  /\ UNCHANGED <<functor, m_seed, frame, hex>>

Next ==
  \/ Murmur_string_view
  \/ Murmur_float
  \/ Murmur_double
  \/ Murmur_decimal128
  \/ Murmur_list_view
  \/ Murmur_struct_view
  \/ Spark_string_view
  \/ Spark_float
  \/ Spark_double
  \/ Spark_decimal128
  \/ Spark_list_view
  \/ Spark_struct_view
  \/ Murmur_generic
  \/ Murmur_bool
  \/ Murmur_decimal32
  \/ Murmur_decimal64
  \/ Spark_generic
  \/ Spark_promoted
  \/ Spark_decimal32
  \/ Spark_decimal64
  \/ Identity_arithmetic
  \/ Identity_non_arithmetic
  \/ NextElement

Spec == Init /\ [][Next]_vars

(***************************************************************************)
(* compute_bytes statement by statement, for threads that call the one     *)
(* functor at the same time.  A frame holds the locals of one call: the    *)
(* arguments data and len, nblocks, the loop index i, the accumulator h1   *)
(* and the value returned, together with a record of the work done so far: *)
(* the steps taken since entry, the block-loop iterations, the tail bytes  *)
(* handled, and how often each byte of data has been read.                 *)
(***************************************************************************)
\* the seed of the shared functor: the one its constructor was given or,
\* when default-constructed, cudf::DEFAULT_HASH_SEED, a constant of
\* cudf/hashing.hpp; either way one fixed 32-bit value, here 0 or 0x9747b28c
SharedSeeds == {U32(0, 0), U32(38727, 45708)}

\* the spans the threads hash: len bytes, the first b0 and each next one 37
\* further
SpanFirst == {97, 200}
SpanKey(len, b0) == StringKey(len, b0, 37)

InitSteps ==
  /\ Init
  /\ functor \in {"MurmurHash3_32", "SparkMurmurHash3_32"}
  /\ m_seed \in SharedSeeds

\* seeded fault: the accumulator is one variable shared by all calls
with_h1_Shared(fr, t, v) == [u \in DOMAIN fr |-> [fr[u] EXCEPT !.h1 = v]]

\* result_type h1 is a local of the call: an assignment to it changes the
\* frame of the calling thread only
with_h1(fr, t, v) == [fr EXCEPT ![t].h1 = v]

\* the offsets of data that getblock32(data, offset) reads
getblock32_offsets(offset) == {offset + b : b \in 0..(BLOCK_SIZE - 1)}

\* the offsets of data that the switch (len % 4) reads
MurmurTail_offsets(len, tail_offset) ==
  (IF len % 4 = 3 THEN {tail_offset + 2} ELSE {}) \cup
  (IF len % 4 >= 2 THEN {tail_offset + 1} ELSE {}) \cup
  (IF len % 4 >= 1 THEN {tail_offset} ELSE {})

\* the read counts after the bytes at the offsets offs have been read once more
ReadBytes(reads, offs) ==
  [j \in DOMAIN reads |-> IF (j - 1) \in offs THEN reads[j] + 1 ELSE reads[j]]

\* seeded fault: the tail loop starts over from the first byte
SparkTailStart_FromZero(nblocks) == 0

\* the initial value of i in the tail loop of SparkMurmurHash3_32
SparkTailStart(nblocks) == nblocks * 4

\* entry: the arguments are bound, nblocks computed and h1 set from m_seed
EnterComputeBytes(t) ==
  /\ frame[t].pc = "idle"
  /\ \E len \in 0..MaxLen, b0 \in SpanFirst :
       frame' = with_h1([frame EXCEPT ![t] =
                           [pc |-> "blocks", data |-> SpanKey(len, b0), len |-> len,
                            nblocks |-> len \div BLOCK_SIZE, i |-> 0,
                            h1 |-> @.h1, result |-> ToU32(0), steps |-> 0,
                            block_iterations |-> 0, tail_bytes |-> 0,
                            reads |-> [j \in 1..len |-> 0]]],
                        t, m_seed)
  /\ UNCHANGED <<functor, m_seed, keyType, key, span, outcome, ret, hex>>

\* one iteration of the loop over the four-byte chunks
BlockIteration(t) ==
  LET f == frame[t]
  IN  /\ f.pc = "blocks"
      /\ f.i < f.nblocks
      /\ frame' = with_h1([frame EXCEPT ![t].i = f.i + 1,
                                        ![t].steps = f.steps + 1,
                                        ![t].block_iterations = f.block_iterations + 1,
                                        ![t].reads = ReadBytes(f.reads,
                                                       getblock32_offsets(f.i * BLOCK_SIZE))],
                          t, MixH1(f.h1, MixK1(getblock32(f.data, f.i * BLOCK_SIZE))))
      /\ UNCHANGED <<functor, m_seed, keyType, key, span, outcome, ret, hex>>

\* the loop condition i < nblocks fails
BlockLoopExit(t) ==
  LET f == frame[t]
  IN  /\ f.pc = "blocks"
      /\ ~(f.i < f.nblocks)
      /\ frame' = [frame EXCEPT ![t].pc = "tail",
                                ![t].steps = f.steps + 1,
                                ![t].i = IF functor = "SparkMurmurHash3_32"
                                           THEN SparkTailStart(f.nblocks)
                                           ELSE f.i]
      /\ UNCHANGED <<functor, m_seed, keyType, key, span, outcome, ret, hex>>

\* MurmurHash3_32: the switch over the remaining bytes
MurmurTailSwitch(t) ==
  LET f == frame[t]
      tail_offset == f.nblocks * BLOCK_SIZE
      offs == MurmurTail_offsets(f.len, tail_offset)
  IN  /\ functor = "MurmurHash3_32"
      /\ f.pc = "tail"
      /\ frame' = with_h1([frame EXCEPT ![t].pc = "finalize",
                                        ![t].steps = f.steps + 1,
                                        ![t].tail_bytes = Cardinality(offs),
                                        ![t].reads = ReadBytes(f.reads, offs)],
                          t, MurmurTail(f.data, f.len, tail_offset, f.h1))
      /\ UNCHANGED <<functor, m_seed, keyType, key, span, outcome, ret, hex>>

\* SparkMurmurHash3_32: one iteration of the loop over the remaining bytes
SparkTailIteration(t) ==
  LET f == frame[t]
  IN  /\ functor = "SparkMurmurHash3_32"
      /\ f.pc = "tail"
      /\ f.i < f.len
      /\ frame' = with_h1([frame EXCEPT ![t].i = f.i + 1,
                                        ![t].steps = f.steps + 1,
                                        ![t].tail_bytes = f.tail_bytes + 1,
                                        ![t].reads = ReadBytes(f.reads, {f.i})],
                          t, MixH1(f.h1, MixK1(SignExtendByte(f.data[f.i + 1]))))
      /\ UNCHANGED <<functor, m_seed, keyType, key, span, outcome, ret, hex>>

\* SparkMurmurHash3_32: the loop condition i < len fails
SparkTailLoopExit(t) ==
  LET f == frame[t]
  IN  /\ functor = "SparkMurmurHash3_32"
      /\ f.pc = "tail"
      /\ ~(f.i < f.len)
      /\ frame' = [frame EXCEPT ![t].pc = "finalize", ![t].steps = f.steps + 1]
      /\ UNCHANGED <<functor, m_seed, keyType, key, span, outcome, ret, hex>>

\* h1 ^= len; h1 = fmix32(h1); return h1
Finalize(t) ==
  LET f == frame[t]
      h == fmix32(Xor32(f.h1, ToU32(f.len)))
  IN  /\ f.pc = "finalize"
      /\ frame' = with_h1([frame EXCEPT ![t].pc = "done", ![t].result = h,
                                        ![t].steps = f.steps + 1],
                          t, h)
      /\ UNCHANGED <<functor, m_seed, keyType, key, span, outcome, ret, hex>>

\* the caller takes the returned value; the thread is free for its next call
TakeResult(t) ==
  /\ frame[t].pc = "done"
  /\ frame' = [frame EXCEPT ![t] = IdleFrame]
  /\ UNCHANGED <<functor, m_seed, keyType, key, span, outcome, ret, hex>>

Step(t) ==
  \/ EnterComputeBytes(t)
  \/ BlockIteration(t)
  \/ BlockLoopExit(t)
  \/ MurmurTailSwitch(t)
  \/ SparkTailIteration(t)
  \/ SparkTailLoopExit(t)
  \/ Finalize(t)
  \/ TakeResult(t)

NextSteps == \E t \in Threads : Step(t)

SpecSteps == InitSteps /\ [][NextSteps]_vars

(***************************************************************************)
(* Calls of uint32ToLowercaseHexString.  The caller owns a buffer of       *)
(* DestinationLen bytes and passes its address; no hash functor takes      *)
(* part.                                                                   *)
(***************************************************************************)
DestinationLen == 10

\* the bytes of num that are tried, in each of its four positions:
\* 0x00 0x09 0x0a 0x12 0x34 0x5e 0x78 0xab 0xcd 0xf6
NumBytes == {0, 9, 10, 18, 52, 94, 120, 171, 205, 246}

\* what the buffer holds before the call, in every byte
DestinationFill == {0, 255}

InitHex ==
  /\ Init
  /\ functor = "IdentityHash"
  /\ m_seed = ToU32(0)

\* the caller has a number to render and a buffer for it
PrepareHexCall ==
  /\ hex.pc = "idle"
  /\ \E b0 \in NumBytes, b1 \in NumBytes, b2 \in NumBytes, b3 \in NumBytes,
        fill \in DestinationFill :
       hex' = [pc |-> "ready",
               num |-> U32(b2 + 256 * b3, b0 + 256 * b1),
               destination |-> [i \in 1..DestinationLen |-> fill]]
  /\ UNCHANGED <<functor, m_seed, keyType, key, span, outcome, ret, frame>>

\* uint32ToLowercaseHexString(num, destination) runs
CallHexString ==
  /\ hex.pc = "ready"
  /\ hex' = [hex EXCEPT !.pc = "written",
                        !.destination = uint32ToLowercaseHexString(hex.num, hex.destination)]
  /\ UNCHANGED <<functor, m_seed, keyType, key, span, outcome, ret, frame>>

\* the caller has used the characters and goes on to its next number
TakeHexString ==
  /\ hex.pc = "written"
  /\ hex' = NoHexCall
  /\ UNCHANGED <<functor, m_seed, keyType, key, span, outcome, ret, frame>>

NextHex ==
  \/ PrepareHexCall
  \/ CallHexString
  \/ TakeHexString

SpecHex == InitHex /\ [][NextHex]_vars

(***************************************************************************)
(* The algorithms the hashes are stated to compute, written over the four  *)
(* base-256 digits <<d0, d1, d2, d3>> of a 32-bit word (least significant  *)
(* first), independently of the [hi, lo] arithmetic of the model above.    *)
(***************************************************************************)
Digits(w) == <<w.lo % 256, w.lo \div 256, w.hi % 256, w.hi \div 256>>

DigitsOfNat(n) == <<n % 256, (n \div 256) % 256, (n \div 65536) % 256, n \div 16777216>>

BitOf(n, i) == (n \div (2 ^ i)) % 2

XorByte(a, b) ==
  ((BitOf(a, 0) + BitOf(b, 0)) % 2) + 2 * ((BitOf(a, 1) + BitOf(b, 1)) % 2)
    + 4 * ((BitOf(a, 2) + BitOf(b, 2)) % 2) + 8 * ((BitOf(a, 3) + BitOf(b, 3)) % 2)
    + 16 * ((BitOf(a, 4) + BitOf(b, 4)) % 2) + 32 * ((BitOf(a, 5) + BitOf(b, 5)) % 2)
    + 64 * ((BitOf(a, 6) + BitOf(b, 6)) % 2) + 128 * ((BitOf(a, 7) + BitOf(b, 7)) % 2)

RefXor(a, b) ==
  <<XorByte(a[1], b[1]), XorByte(a[2], b[2]), XorByte(a[3], b[3]), XorByte(a[4], b[4])>>

\* a + b modulo 2^32, digit by digit with carries
RefAdd(a, b) ==
  LET s1 == a[1] + b[1]
      s2 == a[2] + b[2] + (s1 \div 256)
      s3 == a[3] + b[3] + (s2 \div 256)
      s4 == a[4] + b[4] + (s3 \div 256)
  IN  <<s1 % 256, s2 % 256, s3 % 256, s4 % 256>>

\* a * b modulo 2^32, long multiplication
RefMul(a, b) ==
  LET t1 == a[1] * b[1]
      t2 == a[1] * b[2] + a[2] * b[1] + (t1 \div 256)
      t3 == a[1] * b[3] + a[2] * b[2] + a[3] * b[1] + (t2 \div 256)
      t4 == a[1] * b[4] + a[2] * b[3] + a[3] * b[2] + a[4] * b[1] + (t3 \div 256)
  IN  <<t1 % 256, t2 % 256, t3 % 256, t4 % 256>>

\* rotate left by r bits: by r \div 8 whole digits, then by r % 8 bits
RefRotl(a, r) ==
  LET q == r \div 8
      t == r % 8
      d(i) == a[((i - 1 - q) % 4) + 1]
  IN  [i \in 1..4 |-> ((d(i) * (2 ^ t)) % 256) + (d(i - 1) \div (2 ^ (8 - t)))]

\* logical shift right by r bits
RefShr(a, r) ==
  LET q == r \div 8
      t == r % 8
      d(i) == IF i + q <= 4 THEN a[i + q] ELSE 0
  IN  [i \in 1..4 |-> (d(i) \div (2 ^ t)) + ((d(i + 1) * (2 ^ (8 - t))) % 256)]

RefC1 == <<81, 45, 158, 204>>       \* 0xcc9e2d51
RefC2 == <<147, 53, 135, 27>>       \* 0x1b873593
RefC3 == <<100, 107, 84, 230>>      \* 0xe6546b64

\* k1 *= c1, rotl 15, k1 *= c2
RefMixK1(k1) == RefMul(RefRotl(RefMul(k1, RefC1), 15), RefC2)

\* one full round: h1 ^= k1, h1 = rotl(h1, 13), h1 = h1 * 5 + c3
RefRound(h1, k1) ==
  RefAdd(RefMul(RefRotl(RefXor(h1, RefMixK1(k1)), 13), <<5, 0, 0, 0>>), RefC3)

\* the fmix32 avalanche
RefFmix(h) ==
  LET h_1 == RefXor(h, RefShr(h, 16))
      h_2 == RefMul(h_1, <<107, 202, 235, 133>>)     \* 0x85ebca6b
      h_3 == RefXor(h_2, RefShr(h_2, 13))
      h_4 == RefMul(h_3, <<53, 174, 178, 194>>)      \* 0xc2b2ae35
  IN  RefXor(h_4, RefShr(h_4, 16))

\* h1 after the first n little-endian 4-byte blocks of data, st = <<n, h1>>
RECURSIVE RefBlocks(_, _, _)
RefBlocks(data, n, st) ==
  IF st[1] = n THEN st[2]
  ELSE LET o == 4 * st[1]
       IN  RefBlocks(data, n,
             <<st[1] + 1,
               RefRound(st[2], <<data[o + 1], data[o + 2], data[o + 3], data[o + 4]>>)>>)

\* byte j (1..3) of the tail, 0 past the end of data
TailByte(data, j) ==
  IF 4 * (Len(data) \div 4) + j <= Len(data)
    THEN data[4 * (Len(data) \div 4) + j]
    ELSE 0

\* MurmurHash3 x86_32 as described: blocks, one zero-extended tail word, h1 ^= len, fmix32
RefMurmur3(seed, data) ==
  LET hb == RefBlocks(data, Len(data) \div 4, <<0, seed>>)
      k1 == <<TailByte(data, 1), TailByte(data, 2), TailByte(data, 3), 0>>
      ht == IF Len(data) % 4 = 0 THEN hb ELSE RefXor(hb, RefMixK1(k1))
  IN  RefFmix(RefXor(ht, DigitsOfNat(Len(data))))

\* a signed byte widened to 32 bits
RefSignedByte(b) == IF b >= 128 THEN <<b, 255, 255, 255>> ELSE <<b, 0, 0, 0>>

\* h1 after the tail bytes from index i on, each given a full round, st = <<i, h1>>
RECURSIVE RefSparkTail(_, _)
RefSparkTail(data, st) ==
  IF st[1] > Len(data) THEN st[2]
  ELSE RefSparkTail(data, <<st[1] + 1, RefRound(st[2], RefSignedByte(data[st[1]]))>>)

\* Spark's Murmur3_x86_32.hashUnsafeBytes: blocks, one round per remaining
\* signed byte, h1 ^= len, fmix32
RefSparkMurmur3(seed, data) ==
  LET hb == RefBlocks(data, Len(data) \div 4, <<0, seed>>)
      ht == RefSparkTail(data, <<4 * (Len(data) \div 4) + 1, hb>>)
  IN  RefFmix(RefXor(ht, DigitsOfNat(Len(data))))

\* published MurmurHash3_x86_32 values: <<seed, data, hash>>
GoldenMurmur3 ==
  { <<U32(0, 0), << >>, U32(0, 0)>>,
    <<U32(0, 1), << >>, U32(20814, 10423)>>,                      \* 0x514E28B7
    <<U32(65535, 65535), << >>, U32(33265, 28473)>>,              \* 0x81F16F39
    <<U32(0, 0), <<255, 255, 255, 255>>, U32(30249, 15184)>>,     \* 0x76293B50
    <<U32(0, 0), <<33, 67, 101, 135>>, U32(62811, 20843)>>,       \* 0xF55B516B
    <<U32(0, 0), <<33, 67, 101>>, U32(32330, 34356)>>,            \* 0x7E4A8634
    <<U32(0, 0), <<33, 67>>, U32(41207, 45178)>>,                 \* 0xA0F7B07A
    <<U32(0, 0), <<33>>, U32(29286, 7412)>>,                      \* 0x72661CF4
    <<U32(0, 0), <<0, 0, 0, 0>>, U32(9058, 63966)>>,              \* 0x2362F9DE
    <<U32(0, 0), <<0, 0, 0>>, U32(34288, 46119)>>,                \* 0x85F0B427
    <<U32(0, 0), <<0, 0>>, U32(12532, 49926)>>,                   \* 0x30F4C306
    <<U32(0, 0), <<0>>, U32(20814, 10423)>>,                      \* 0x514E28B7
    <<U32(38727, 45708), <<97, 97, 97, 97>>, U32(23191, 32906)>>, \* 0x5A97808A
    <<U32(38727, 45708), <<97, 97, 97>>, U32(10302, 304)>>,       \* 0x283E0130
    <<U32(38727, 45708), <<97, 97>>, U32(23841, 5926)>>,          \* 0x5D211726
    <<U32(38727, 45708), <<97>>, U32(32672, 40614)>>,             \* 0x7FA09EA6
    <<U32(38727, 45708), <<97, 98, 99, 100>>, U32(61511, 34343)>>,\* 0xF0478627
    <<U32(38727, 45708), <<97, 98, 99>>, U32(51274, 25309)>>,     \* 0xC84A62DD
    <<U32(38727, 45708), <<97, 98>>, U32(29831, 21906)>>  }       \* 0x74875592

\* published Spark values: hash(0) = 933211791 and hash(1) = -559580957, seed 42
GoldenSpark ==
  { <<U32(0, 42), <<0, 0, 0, 0>>, U32(14239, 44687)>>,            \* 0x379FAE8F
    <<U32(0, 42), <<1, 0, 0, 0>>, U32(56997, 30947)>> }           \* 0xDEA578E3

MurmurReturned == functor = "MurmurHash3_32" /\ outcome = "returned"
SparkReturned == functor = "SparkMurmurHash3_32" /\ outcome = "returned"

(***************************************************************************)
(* C1: whatever seed the functor holds and whatever byte span a call hands *)
(* to MurmurHash3_32::compute_bytes, the value returned is that of the     *)
(* described algorithm: a round per little-endian 4-byte block, the 0-3    *)
(* tail bytes zero-extended into one word that is mixed and XORed in once  *)
(* (nothing when len % 4 = 0), h1 ^= len, fmix32, modulo 2^32; the empty   *)
(* span hashes to 0 under seed 0 and to 0x514E28B7 under seed 1, and the   *)
(* published MurmurHash3_x86_32 values are reproduced.                     *)
(***************************************************************************)
C1_MurmurComputesAlgorithm ==
  MurmurReturned =>
    /\ Digits(ret) = RefMurmur3(Digits(m_seed), span)
    /\ \A g \in GoldenMurmur3 : (m_seed = g[1] /\ span = g[2]) => ret = g[3]

\* a span with a full block and a three byte tail has been hashed
C1_Witness ==
  /\ MurmurReturned
  /\ keyType = "string_view"
  /\ Len(span) = 7
  /\ span[3] = 101 /\ span[7] = 237
  /\ m_seed = U32(38727, 45708)

(***************************************************************************)
(* C2: whatever the seed and the byte span, the value returned by          *)
(* SparkMurmurHash3_32::compute_bytes is that of Spark's Murmur3 over      *)
(* bytes: a full round per 4-byte block, then a full round per remaining   *)
(* byte taken as a signed byte widened to 32 bits, then h1 ^= len, fmix32. *)
(***************************************************************************)
C2_SparkMatchesReference ==
  SparkReturned =>
    /\ Digits(ret) = RefSparkMurmur3(Digits(m_seed), span)
    /\ \A g \in GoldenSpark : (m_seed = g[1] /\ span = g[2]) => ret = g[3]

\* a span with a full block and tail bytes of both signs has been hashed
C2_Witness ==
  /\ SparkReturned
  /\ keyType = "string_view"
  /\ Len(span) = 6
  /\ span[5] >= 128 /\ span[6] < 128
  /\ m_seed = U32(0, 42)

(***************************************************************************)
(* C3: in SparkMurmurHash3_32::compute_bytes each of the 1-3 tail bytes is *)
(* folded in on its own, in increasing address order, sign-extended from a *)
(* signed 8-bit byte to a 32-bit word: the value returned is the one the   *)
(* block rounds give for the span in which every tail byte b is replaced   *)
(* by the four bytes of its sign extension (b, then three bytes 0xff when  *)
(* b is 0x80..0xff and three bytes 0x00 otherwise), finalised with the     *)
(* length of the original span.                                            *)
(***************************************************************************)
SignFill(b) == IF b >= 128 THEN 255 ELSE 0

\* the span with each tail byte widened to a whole sign-extended block
ExpandTail(data) ==
  LET head == 4 * (Len(data) \div 4)
      tail == Len(data) % 4
  IN  [i \in 1..(head + 4 * tail) |->
         IF i <= head THEN data[i]
         ELSE IF (i - head) % 4 = 1 THEN data[head + ((i - head - 1) \div 4) + 1]
         ELSE SignFill(data[head + ((i - head - 1) \div 4) + 1])]

C3_SparkTailBytewiseSigned ==
  (SparkReturned /\ Len(span) % 4 # 0) =>
     ret = fmix32(Xor32(BlockLoop(ExpandTail(span), Len(ExpandTail(span)) \div 4,
                                  [i |-> 0, h1 |-> m_seed]),
                        ToU32(Len(span))))

\* a three byte tail holding bytes of both signs has been folded in, and the
\* value differs from the one the batched zero-extended tail word would give
C3_Witness ==
  /\ SparkReturned
  /\ keyType = "string_view"
  /\ Len(span) = 7
  /\ span[5] < 128 /\ span[6] >= 128
  /\ ret # MurmurHash3_32_compute_bytes(m_seed, span, Len(span))

(***************************************************************************)
(* C4: the span SparkMurmurHash3_32<decimal128> hands to compute_bytes is  *)
(* big-endian and, re-expanded to 128 bits by sign extension of its first  *)
(* byte, gives back the unscaled value exactly.                            *)
(***************************************************************************)
\* the 16 little-endian bytes of the value a big-endian span sign-extends to
SignExtendBigEndian(bytes) ==
  [i \in 1..16 |-> IF i <= Len(bytes) THEN bytes[Len(bytes) + 1 - i]
                   ELSE SignFill(bytes[1])]

SparkDecimal128Returned == SparkReturned /\ keyType = "decimal128"

C4_DecimalSpanRoundTrip ==
  SparkDecimal128Returned =>
    /\ Len(span) \in 1..16
    /\ SignExtendBigEndian(span) = key

\* a negative value of several distinct bytes has been encoded in fewer than 16
C4_Witness ==
  /\ SparkDecimal128Returned
  /\ key[16] = 255 /\ key[6] = 1 /\ key[5] = 90
  /\ Len(span) = 7

(***************************************************************************)
(* C5: the span hashed for a decimal128 is minimal: no shorter big-endian  *)
(* span sign-extends back to the value; for values within 24 bits its      *)
(* length is the smallest n with -2^(8n-1) <= v < 2^(8n-1).                *)
(***************************************************************************)
\* the low m bytes of the value, most significant first
LowBytesBigEndian(val, m) == [i \in 1..m |-> val[m + 1 - i]]

\* the value fits the model's integers: bytes 4..16 repeat the sign
FitsSmall(val) ==
  /\ \A i \in 4..16 : val[i] = val[16]
  /\ val[16] \in {0, 255}

SmallValue(val) ==
  val[1] + 256 * val[2] + 65536 * val[3] - (IF val[16] = 255 THEN 16777216 ELSE 0)

\* the smallest n with -2^(8n-1) <= v < 2^(8n-1), for -2^24 <= v < 2^24
SmallestWidth(v) ==
  IF -128 <= v /\ v < 128 THEN 1
  ELSE IF -32768 <= v /\ v < 32768 THEN 2
  ELSE IF -8388608 <= v /\ v < 8388608 THEN 3
  ELSE 4

C5_DecimalSpanMinimal ==
  SparkDecimal128Returned =>
    /\ \A m \in 1..(Len(span) - 1) :
         SignExtendBigEndian(LowBytesBigEndian(key, m)) # key
    /\ FitsSmall(key) => Len(span) = SmallestWidth(SmallValue(key))

\* a value whose top retained byte needed the extra sign byte has been encoded
C5_Witness ==
  /\ SparkDecimal128Returned
  /\ FitsSmall(key) /\ SmallValue(key) = 33023
  /\ Len(span) = 3

(***************************************************************************)
(* C6: decimal boundary cases: 0 encodes as the byte 0x00, -1 as 0xff, 127 *)
(* as 0x7f, 128 as 0x00 0x80; at every transition k in 1..15 the values    *)
(* 2^(8k-1)-1 and -2^(8k-1) encode in k bytes while 2^(8k-1) and           *)
(* -2^(8k-1)-1 encode in k+1 bytes, the first being the sign byte 0x00 or  *)
(* 0xff.                                                                   *)
(***************************************************************************)
\* the 16 bytes of a value v with -2^23 <= v < 2^23
KeyOfInt(v) ==
  [i \in 1..16 |-> IF i <= 3 THEN (v \div (256 ^ (i - 1))) % 256
                   ELSE IF v < 0 THEN 255 ELSE 0]

\* the 16 bytes of 2^(8k-1)-1, -2^(8k-1), 2^(8k-1) and -2^(8k-1)-1
MaxOfWidth(k) == [i \in 1..16 |-> IF i < k THEN 255 ELSE IF i = k THEN 127 ELSE 0]
MinOfWidth(k) == [i \in 1..16 |-> IF i < k THEN 0 ELSE IF i = k THEN 128 ELSE 255]
AboveMaxOfWidth(k) == [i \in 1..16 |-> IF i < k THEN 0 ELSE IF i = k THEN 128 ELSE 0]
BelowMinOfWidth(k) == [i \in 1..16 |-> IF i < k THEN 255 ELSE IF i = k THEN 127 ELSE 255]

C6_DecimalBoundaries ==
  SparkDecimal128Returned =>
    /\ key = KeyOfInt(0) => span = <<0>>
    /\ key = KeyOfInt(-1) => span = <<255>>
    /\ key = KeyOfInt(127) => span = <<127>>
    /\ key = KeyOfInt(128) => span = <<0, 128>>
    /\ \A k \in 1..15 :
         /\ key = MaxOfWidth(k) => (Len(span) = k /\ span[1] = 127)
         /\ key = MinOfWidth(k) => (Len(span) = k /\ span[1] = 128)
         /\ key = AboveMaxOfWidth(k) =>
              (Len(span) = k + 1 /\ span[1] = 0 /\ span[2] = 128)
         /\ key = BelowMinOfWidth(k) =>
              (Len(span) = k + 1 /\ span[1] = 255 /\ span[2] = 127)

\* the last transition, 2^119, has been encoded in all 16 bytes
C6_Witness ==
  /\ SparkDecimal128Returned
  /\ key = AboveMaxOfWidth(15)
  /\ Len(span) = 16

(***************************************************************************)
(* Floating point bit patterns as the claims name them.                    *)
(***************************************************************************)
FloatingReturned == outcome = "returned" /\ keyType \in {"float", "double"}

PlusZero(n) == [i \in 1..n |-> 0]
MinusZero(n) == [i \in 1..n |-> IF i = n THEN 128 ELSE 0]

\* the biased exponent and whether the mantissa is zero
Exponent(bits) ==
  IF Len(bits) = 4
    THEN (bits[4] % 128) * 2 + (bits[3] \div 128)
    ELSE (bits[8] % 128) * 16 + (bits[7] \div 16)

MantissaIsZero(bits) ==
  IF Len(bits) = 4
    THEN (bits[3] % 128) * 65536 + bits[2] * 256 + bits[1] = 0
    ELSE (bits[7] % 16) + bits[6] + bits[5] + bits[4] + bits[3] + bits[2] + bits[1] = 0

\* exponent all ones, mantissa non-zero
IsNaNPattern(bits) ==
  /\ Exponent(bits) = (IF Len(bits) = 4 THEN 255 ELSE 2047)
  /\ ~MantissaIsZero(bits)

\* 0x7fc00000 and 0x7ff8000000000000
CanonicalNaN(n) ==
  IF n = 4 THEN <<0, 0, 192, 127>> ELSE <<0, 0, 0, 0, 0, 0, 248, 127>>

(***************************************************************************)
(* C7: MurmurHash3_32<float> and <double> return, under every seed, the    *)
(* same value for +0.0 and for -0.0: the hash of the bytes of +0.0.        *)
(***************************************************************************)
C7_MurmurZerosHashAlike ==
  (MurmurReturned /\ keyType \in {"float", "double"}
     /\ key \in {PlusZero(Len(key)), MinusZero(Len(key))}) =>
       /\ span = PlusZero(Len(key))
       /\ Digits(ret) = RefMurmur3(Digits(m_seed), PlusZero(Len(key)))

\* a double -0.0 has been hashed by the generic hash
C7_Witness ==
  /\ MurmurReturned
  /\ keyType = "double"
  /\ key = MinusZero(8)
  /\ m_seed = U32(0, 42)

(***************************************************************************)
(* C8: SparkMurmurHash3_32<float> and <double> normalise +0.0 and -0.0 to  *)
(* +0.0 before hashing, so that both return, under every seed, the same    *)
(* value.                                                                  *)
(***************************************************************************)
C8_SparkZerosHashAlike ==
  (SparkReturned /\ keyType \in {"float", "double"}
     /\ key \in {PlusZero(Len(key)), MinusZero(Len(key))}) =>
       /\ span = PlusZero(Len(key))
       /\ Digits(ret) = RefSparkMurmur3(Digits(m_seed), PlusZero(Len(key)))

(***************************************************************************)
(* C9: for either floating width, either hash and every seed, every NaN    *)
(* bit pattern (exponent all ones, mantissa non-zero, either sign, quiet   *)
(* or signalling) hashes to the hash of the one canonical quiet NaN, which *)
(* is also the pattern normalize_nans_and_zeros gives for it.              *)
(***************************************************************************)
C9_NaNsHashAlike ==
  (FloatingReturned /\ IsNaNPattern(key)) =>
     /\ span = CanonicalNaN(Len(key))
     /\ normalize_nans_and_zeros(key) = CanonicalNaN(Len(key))
     /\ functor = "MurmurHash3_32" =>
          Digits(ret) = RefMurmur3(Digits(m_seed), CanonicalNaN(Len(key)))
     /\ functor = "SparkMurmurHash3_32" =>
          Digits(ret) = RefSparkMurmur3(Digits(m_seed), CanonicalNaN(Len(key)))

\* a negative signalling NaN has been hashed
C9_Witness ==
  /\ FloatingReturned
  /\ functor = "SparkMurmurHash3_32"
  /\ key = <<1, 0, 128, 255>>

IdentityReturned == functor = "IdentityHash" /\ outcome = "returned"

\* the first 32 stored bits of the key k, clear bits where k has none
StoredBits32(k) == [i \in 1..4 |-> IF i <= Len(k) THEN k[i] ELSE 0]

C11_IdentityReturnsStoredBits ==
  (IdentityReturned /\ keyType \in IntTypes) =>
     Digits(ret) = <<StoredBits32(key)[1], StoredBits32(key)[2],
                     StoredBits32(key)[3], StoredBits32(key)[4]>>

(***************************************************************************)
(* C12: SparkMurmurHash3_32 on a bool, int8_t, uint8_t, int16_t or         *)
(* uint16_t key hashes four bytes, those of the 32-bit integer of the same *)
(* numeric value, and so returns what SparkMurmurHash3_32<int32_t> returns *)
(* for that value.                                                         *)
(***************************************************************************)
\* the key types whose value is a signed integer
SignedTypes == {"int8_t", "int16_t", "int32_t", "int64_t",
                "decimal32", "decimal64", "decimal128"}

\* the n-byte two's complement of the numeric value of the key k of type t
WidenValue(t, k, n) ==
  [i \in 1..n |-> IF i <= Len(k) THEN k[i]
                  ELSE IF t \in SignedTypes THEN SignFill(k[Len(k)])
                    ELSE 0]

C12_SparkNarrowIntegersPromoted ==
  (SparkReturned /\ keyType \in PromotedTypes \cup {"bool"}) =>
     /\ Len(span) = 4
     /\ span = WidenValue(keyType, key, 4)
     /\ Digits(ret) = RefSparkMurmur3(Digits(m_seed), WidenValue(keyType, key, 4))
     /\ ret = SparkMurmurHash3_32_generic(m_seed, WidenValue(keyType, key, 4)).value

\* the int8_t key -128 has been hashed by the Spark functor
C12_Witness ==
  /\ SparkReturned
  /\ keyType = "int8_t"
  /\ key = <<128>>
  /\ span = <<128, 255, 255, 255>>

(***************************************************************************)
(* C13: SparkMurmurHash3_32 on a decimal32 key of unscaled value v hashes  *)
(* the eight little-endian bytes of v sign-widened to 64 bits, the bytes   *)
(* it hashes for the decimal64 key of the same v, so both return the same  *)
(* value.                                                                  *)
(***************************************************************************)
C13_SparkDecimal32LikeDecimal64 ==
  (SparkReturned /\ keyType \in {"decimal32", "decimal64"}) =>
     /\ Len(span) = 8
     /\ span = WidenValue(keyType, key, 8)
     /\ Digits(ret) = RefSparkMurmur3(Digits(m_seed), WidenValue(keyType, key, 8))
     /\ ret = SparkMurmurHash3_32_decimal64(m_seed, WidenValue(keyType, key, 8)).value

\* a negative decimal32 key has been hashed by the Spark functor
C13_Witness ==
  /\ SparkReturned
  /\ keyType = "decimal32"
  /\ key = <<1, 255, 0, 128>>
  /\ span = <<1, 255, 0, 128, 255, 255, 255, 255>>

(***************************************************************************)
(* C14: within one hash variant, equal logical values hash alike whatever  *)
(* the storage width: an integer v stored as a wider integer key of the    *)
(* same signedness, and an unscaled decimal v stored at a wider backing    *)
(* type, are given the hash v has at the width at hand.                    *)
(***************************************************************************)
HashReturned == MurmurReturned \/ SparkReturned

\* the outcome of the functor at hand, with its seed, called on key k of type t
HashAs(t, k) ==
  IF functor = "MurmurHash3_32"
    THEN CASE t = "bool" -> MurmurHash3_32_bool(m_seed, k)
           [] t \in IntTypes -> MurmurHash3_32_generic(m_seed, k)
           [] t = "decimal32" -> MurmurHash3_32_decimal32(m_seed, k)
           [] t = "decimal64" -> MurmurHash3_32_decimal64(m_seed, k)
           [] t = "decimal128" -> MurmurHash3_32_decimal128(m_seed, k)
           [] t = "float" -> MurmurHash3_32_float(m_seed, k)
           [] t = "double" -> MurmurHash3_32_double(m_seed, k)
           [] t = "string_view" -> MurmurHash3_32_string_view(m_seed, k)
    ELSE CASE t \in PromotedTypes \cup {"bool"} -> SparkMurmurHash3_32_promoted(m_seed, t, k)
           [] t \in IntTypes \ PromotedTypes -> SparkMurmurHash3_32_generic(m_seed, k)
           [] t = "decimal32" -> SparkMurmurHash3_32_decimal32(m_seed, k)
           [] t = "decimal64" -> SparkMurmurHash3_32_decimal64(m_seed, k)
           [] t = "decimal128" -> SparkMurmurHash3_32_decimal128(m_seed, k)
           [] t = "float" -> SparkMurmurHash3_32_float(m_seed, k)
           [] t = "double" -> SparkMurmurHash3_32_double(m_seed, k)
           [] t = "string_view" -> SparkMurmurHash3_32_string_view(m_seed, k)

WidthOf(t) ==
  CASE t \in {"bool", "int8_t", "uint8_t"} -> 1
    [] t \in {"int16_t", "uint16_t"} -> 2
    [] t \in {"int32_t", "uint32_t", "decimal32", "float"} -> 4
    [] t \in {"int64_t", "uint64_t", "decimal64", "double"} -> 8
    [] t = "decimal128" -> 16

\* the wider types of the same kind and signedness as t
WiderTypes(t) ==
  CASE t \in {"int8_t", "int16_t", "int32_t", "int64_t"} ->
         {u \in {"int16_t", "int32_t", "int64_t"} : WidthOf(u) > WidthOf(t)}
    [] t \in {"uint8_t", "uint16_t", "uint32_t", "uint64_t"} ->
         {u \in {"uint16_t", "uint32_t", "uint64_t"} : WidthOf(u) > WidthOf(t)}
    [] t \in {"decimal32", "decimal64"} ->
         {u \in {"decimal64", "decimal128"} : WidthOf(u) > WidthOf(t)}

C14_EqualValuesHashAlike ==
  (HashReturned /\ keyType \in IntTypes \cup {"decimal32", "decimal64"}) =>
     \A u \in WiderTypes(keyType) :
        HashAs(u, WidenValue(keyType, key, WidthOf(u))).value = ret

\* the wider types to which SparkMurmurHash3_32 gives the representation it
\* gives t
SparkAlikeTypes(t) ==
  CASE t \in {"int8_t", "int16_t"} ->
         {u \in {"int16_t", "int32_t"} : WidthOf(u) > WidthOf(t)}
    [] t \in {"uint8_t", "uint16_t"} ->
         {u \in {"uint16_t", "uint32_t"} : WidthOf(u) > WidthOf(t)}
    [] t = "decimal32" -> {"decimal64"}
    [] OTHER -> {}

\* amended: equal logical values hash alike only where the variant promotes
\* them to one representation, which SparkMurmurHash3_32 does for integers
\* of 8, 16 and 32 bits and for decimals of 32 and 64 bits; at every other
\* pair of widths, and at every pair under MurmurHash3_32, the two keys are
\* hashed over spans of different lengths, except that the Spark functor
\* hashes a decimal128 over its trimmed bytes in the opposite order, most
\* significant first
C14_EqualValuesHashAlikeWherePromoted ==
  (HashReturned /\ keyType \in IntTypes \cup {"decimal32", "decimal64"}) =>
     \A u \in WiderTypes(keyType) :
        LET other == HashAs(u, WidenValue(keyType, key, WidthOf(u)))
        IN  IF functor = "SparkMurmurHash3_32" /\ u \in SparkAlikeTypes(keyType)
              THEN other.span = span /\ other.value = ret
              ELSE IF functor = "SparkMurmurHash3_32" /\ u = "decimal128"
                THEN /\ Len(other.span) <= Len(span)
                     /\ \A i \in 1..Len(other.span) :
                          other.span[i] = span[Len(other.span) + 1 - i]
                ELSE Len(other.span) # Len(span)

\* the int8_t key -1 has been hashed by the Spark functor
C14_Witness ==
  /\ SparkReturned
  /\ keyType = "int8_t"
  /\ key = <<255>>
  /\ HashAs("int32_t", <<255, 255, 255, 255>>).value = ret
  /\ HashAs("int64_t", <<255, 255, 255, 255, 255, 255, 255, 255>>).value # ret

(***************************************************************************)
(* C15: the value a hash functor returns depends on nothing but its seed   *)
(* and the bytes it hashes: whenever a call has hashed a span, a key of    *)
(* any other type whose canonical representation is that same span is      *)
(* given the same value, as the int32_t 1065353216 and the float 1.0 are   *)
(* under MurmurHash3_32.                                                   *)
(***************************************************************************)
FixedWidthTypes == IntTypes \cup {"bool", "float", "double",
                                  "decimal32", "decimal64", "decimal128"}

\* the types a key stored in the n bytes of a span can have
TypesStoredIn(n) == {u \in FixedWidthTypes : WidthOf(u) = n} \cup {"string_view"}

RunAlone(data) ==
  IF functor = "MurmurHash3_32"
    THEN MurmurHash3_32_compute_bytes(m_seed, data, Len(data))
    ELSE SparkMurmurHash3_32_compute_bytes(m_seed, data, Len(data))

C16_ReturnsRunAloneValue ==
  \A t \in Threads :
     (frame[t].pc = "done") =>
        /\ frame[t].result = RunAlone(frame[t].data)
        /\ Digits(frame[t].result) =
             IF functor = "MurmurHash3_32"
               THEN RefMurmur3(Digits(m_seed), frame[t].data)
               ELSE RefSparkMurmur3(Digits(m_seed), frame[t].data)

C16_StepWritesOwnFrameOnly ==
  /\ m_seed' = m_seed
  /\ functor' = functor
  /\ \A t, u \in Threads : (t # u) => (frame'[t] = frame[t] \/ frame'[u] = frame[u])

C16_ConcurrentCallsIndependent ==
  [](C16_ReturnsRunAloneValue) /\ [][C16_StepWritesOwnFrameOnly]_vars

\* a call has returned while the other thread is in the middle of its loop
\* over a different key
C16_Witness ==
  /\ m_seed = U32(0, 0)
  /\ frame["t1"].pc = "done"
  /\ frame["t1"].len = 7
  /\ frame["t2"].pc = "blocks"
  /\ frame["t2"].i = 1
  /\ frame["t2"].data # frame["t1"].data

HasNextStep(f) ==
  \/ f.pc = "blocks" /\ f.i <= f.nblocks
  \/ f.pc = "tail" /\ functor = "MurmurHash3_32"
  \/ f.pc = "tail" /\ functor = "SparkMurmurHash3_32" /\ f.i <= f.len
  \/ f.pc = "finalize"

C18_WorkDone ==
  \A t \in Threads :
     LET f == frame[t]
     IN  /\ (f.pc \notin {"idle", "done"}) => HasNextStep(f)
         /\ (f.pc # "idle") =>
              /\ f.steps <= (f.len \div 4) + (f.len % 4) + 3
              /\ f.block_iterations <= f.len \div 4
              /\ f.tail_bytes <= f.len % 4
              /\ \A j \in 1..f.len : f.reads[j] <= 1
         /\ (f.pc \in {"finalize", "done"}) =>
              /\ f.block_iterations = f.len \div 4
              /\ f.tail_bytes = f.len % 4
              /\ f.tail_bytes <= 3
              /\ \A j \in 1..f.len : f.reads[j] = 1

\* every step of a call adds one to its count of steps
C18_StepCounted ==
  \A t \in Threads :
     (frame'[t] # frame[t] /\ frame[t].pc \notin {"idle", "done"}) =>
        frame'[t].steps = frame[t].steps + 1

C18_ComputeBytesTerminates == [](C18_WorkDone) /\ [][C18_StepCounted]_vars

\* a Spark call on a span of 7 bytes has returned
C18_Witness ==
  /\ functor = "SparkMurmurHash3_32"
  /\ frame["t2"].pc = "done"
  /\ frame["t2"].len = 7
  /\ frame["t2"].block_iterations = 1
  /\ frame["t2"].tail_bytes = 3
  /\ frame["t2"].steps = 7

(***************************************************************************)
(* C19: for every seed and every byte span whose length is a multiple of   *)
(* 4, the empty span included, SparkMurmurHash3_32::compute_bytes and      *)
(* MurmurHash3_32::compute_bytes return the same value.                    *)
(***************************************************************************)
C19_HashesAgreeOnWholeBlocks ==
  (HashReturned /\ keyType \notin {"list_view", "struct_view"} /\ Len(span) % 4 = 0) =>
     /\ ret = MurmurHash3_32_compute_bytes(m_seed, span, Len(span))
     /\ ret = SparkMurmurHash3_32_compute_bytes(m_seed, span, Len(span))

\* the Spark functor has hashed a span of eight bytes, some with the top bit set
C19_Witness ==
  /\ SparkReturned
  /\ keyType = "string_view"
  /\ Len(span) = 8
  /\ span[1] = 128
  /\ span[8] = 121

(***************************************************************************)
(* C20: in SparkMurmurHash3_32<decimal128> the retained length is within   *)
(* 1..16 for every 128-bit value, before and after the sign-preserving     *)
(* byte is added, and that byte is added only to a length below 16; so the *)
(* byte inspected for the sign test, at offset length - 1, and the bytes   *)
(* reversed and hashed, at offsets 0..length - 1, all lie within the 16    *)
(* bytes of the value.                                                     *)
(***************************************************************************)
C20_DecimalLengthInRange ==
  SparkDecimal128Returned =>
     LET trimmed == decimal128_trimmed_length(key)
         length  == decimal128_length(key)
     IN  /\ trimmed \in 1..16
         /\ (trimmed - 1) \in 0..15
         /\ length \in 1..16
         /\ length \in {trimmed, trimmed + 1}
         /\ (length = trimmed + 1) => (trimmed < 16)
         /\ Len(span) = length
         /\ \A i \in 1..Len(span) : (length - i) \in 0..15 /\ span[i] \in 0..255

\* a positive value of 15 bytes, the highest with its top bit set, has been
\* hashed: the sign byte brings the length to 16
C20_Witness ==
  /\ SparkDecimal128Returned
  /\ key[16] = 0
  /\ key[15] = 128
  /\ decimal128_trimmed_length(key) = 15
  /\ Len(span) = 16

(***************************************************************************)
(* C21: for every 32-bit num, uint32ToLowercaseHexString writes exactly 8  *)
(* bytes at destination and leaves what follows them as it was; each is an *)
(* ASCII character '0'..'9' or 'a'..'f', never an upper-case letter; and   *)
(* read as four pairs they spell the four bytes of num from the least to   *)
(* the most significant, the high digit of each byte first.  0xABCD1234,   *)
(* packed as 0x0B0A0D0C02010403, is written as "3412cdab".                 *)
(***************************************************************************)
\* the ASCII code of the lower-case hexadecimal digit d
HexChar(d) == IF d < 10 THEN 48 + d ELSE 87 + d

HexWritten == hex.pc = "written"

C21_HexCharactersWritten ==
  HexWritten =>
     /\ Len(hex.destination) = DestinationLen
     /\ \A i \in 1..8 : hex.destination[i] \in (48..57) \cup (97..102)
     /\ \A p \in 1..4 :
          /\ hex.destination[2 * p - 1] = HexChar(Digits(hex.num)[p] \div 16)
          /\ hex.destination[2 * p] = HexChar(Digits(hex.num)[p] % 16)
     /\ (Digits(hex.num) = <<52, 18, 205, 171>>) =>
          /\ pack_digits(hex.num) = <<3, 0, 4, 0, 1, 0, 2, 0, 12, 0, 13, 0, 10, 0, 11, 0>>
          /\ SubSeq(hex.destination, 1, 8) = <<51, 52, 49, 50, 99, 100, 97, 98>>

\* the call changes the first 8 bytes of the buffer and nothing else
C21_OnlyEightBytesWritten ==
  (hex.pc = "ready" /\ hex'.pc = "written") =>
     /\ hex'.num = hex.num
     /\ Len(hex'.destination) = Len(hex.destination)
     /\ \A i \in 9..Len(hex.destination) : hex'.destination[i] = hex.destination[i]

C21_HexStringOfNum ==
  [](C21_HexCharactersWritten) /\ [][C21_OnlyEightBytesWritten]_vars

\* 0xABCD1234 has been written into a buffer that held 0xff in every byte
C21_Witness ==
  /\ HexWritten
  /\ hex.num = U32(43981, 4660)
  /\ hex.destination[1] = 51
  /\ hex.destination[8] = 98
  /\ hex.destination[9] = 255

=============================================================================
